---- MODULE Spec2Model ----
(***************************************************************************)
(* Session memory and tool routing of the chatbot: agent.py (ChatbotAgent), *)
(* memory.py (SessionManager) and tools.py.                                 *)
(*                                                                          *)
(* Text is modelled by TLA+ strings, processed character by character       *)
(* (SubSeq, Len and \o work on strings), so lower(), strip(), the substring *)
(* test `w in msg`, the f-strings and "\n".join are computed, not assumed.  *)
(***************************************************************************)
EXTENDS Integers, Sequences, FiniteSets, TLC

VARIABLES
    sessions,   \* SessionManager.sessions: thread id -> reference of its session dict, or None
    heap,       \* the session dicts, by reference (None = no such object)
    clock,      \* what datetime.now() reads
    ret,        \* what the last completed call of the sequential interface returned
    saved,      \* history variable: per thread id, the exchanges chat saved since it was last cleared
    proc,       \* per request thread: the call it is executing, its position and its locals
    rt          \* the routing pipeline of one message: inputs, position, outputs

vars == <<sessions, heap, clock, ret, saved, proc, rt>>

None == "<none>"

(***************************************************************************)
(* Bounds.                                                                  *)
(***************************************************************************)
\* exchanges saved in the whole store before the model stops saving more
MaxTurns == 3
\* last value of the clock
MaxClock == 1
\* calls one request thread makes in the concurrent model
MaxCalls == 2

Tids == {"a", "b"}
Procs == {"p1", "p2"}
Refs == 1..(Cardinality(Tids) + Cardinality(Procs))

(***************************************************************************)
(* Strings.                                                                 *)
(***************************************************************************)
Upper == "ABCDEFGHIJKLMNOPQRSTUVWXYZ"
LowerLetters == "abcdefghijklmnopqrstuvwxyz"

CharAt(s, i) == SubSeq(s, i, i)

\* position of the one-character string c in s, 0 when absent
IndexOf(s, c) ==
    IF \E i \in 1..Len(s) : CharAt(s, i) = c
    THEN CHOOSE i \in 1..Len(s) : CharAt(s, i) = c /\ \A j \in 1..(i-1) : CharAt(s, j) # c
    ELSE 0

LowerChar(c) == IF IndexOf(Upper, c) = 0 THEN c ELSE CharAt(LowerLetters, IndexOf(Upper, c))
UpperChar(c) == IF IndexOf(LowerLetters, c) = 0 THEN c ELSE CharAt(Upper, IndexOf(LowerLetters, c))

RECURSIVE Lower(_)
\* str.lower()
Lower(s) == IF Len(s) = 0 THEN "" ELSE LowerChar(CharAt(s, 1)) \o Lower(Tail(s))

IsSpace(c) == c \in {" ", "\n", "\t", "\r", "\f"}

RECURSIVE LStrip(_)
LStrip(s) == IF Len(s) > 0 /\ IsSpace(CharAt(s, 1)) THEN LStrip(Tail(s)) ELSE s

RECURSIVE RStrip(_)
RStrip(s) ==
    IF Len(s) > 0 /\ IsSpace(CharAt(s, Len(s))) THEN RStrip(SubSeq(s, 1, Len(s) - 1)) ELSE s

\* str.strip()
Strip(s) == RStrip(LStrip(s))

\* the Python test `sub in s`
Contains(s, sub) ==
    \E i \in 1..(Len(s) - Len(sub) + 1) : SubSeq(s, i, i + Len(sub) - 1) = sub

\* any(w in s for w in words)
ContainsAny(s, words) == \E w \in words : Contains(s, w)

\* str.title() of a one-word lowercase name
Title(s) == IF Len(s) = 0 THEN "" ELSE UpperChar(CharAt(s, 1)) \o Tail(s)

RECURSIVE Pad(_, _)
\* the format spec {s:<n>s}: s padded with spaces on the right to n characters
Pad(s, n) == IF Len(s) >= n THEN s ELSE Pad(s \o " ", n)

RECURSIVE Repeat(_, _)
\* s * n
Repeat(s, n) == IF n <= 0 THEN "" ELSE s \o Repeat(s, n - 1)

RECURSIVE Join(_, _)
\* sep.join(lines)
Join(sep, lines) ==
    IF Len(lines) = 0 THEN ""
    ELSE IF Len(lines) = 1 THEN lines[1]
    ELSE lines[1] \o sep \o Join(sep, Tail(lines))

(***************************************************************************)
(* tools.py                                                                 *)
(***************************************************************************)
\* ChatbotAgent.tools_map: the names a tool is registered under
KnownTools == {"positive_tool", "negative_tool", "student_marks_tool", "crisis_tool"}

positive_tool(query) ==
    LET query_lower == Lower(query) IN
    IF Contains(query_lower, "happy") \/ Contains(query_lower, "great")
    THEN " That's wonderful! Keep that positive energy going! Your happiness is inspiring!"
    ELSE IF Contains(query_lower, "motivat") \/ Contains(query_lower, "inspire")
    THEN "You've got this! Every small step counts. Keep pushing forward - you're stronger than you think!"
    ELSE " Stay positive! You're doing amazing. Keep that great attitude!"

\* the text is the source's, line for line
negative_tool(query) ==
    "I hear you, and your feelings are completely valid. \n\nRemember:\n"
    \o "- It's okay to not be okay sometimes\n- This difficult moment will pass\n"
    \o "- You've overcome challenges before, and you can do it again\n"
    \o "- Small steps are still progress\n- Take care of yourself today\n\n"
    \o "Tomorrow is a new day with new possibilities. "

\* the source's text without its pictographs and with its middle lines left out
crisis_tool(query) ==
    "\n IMMEDIATE CRISIS SUPPORT RESOURCES\n==========================================\n\n"
    \o "If you're in crisis, please reach out RIGHT NOW:\n\n"
    \o "This feeling is temporary. Help is available. You matter.\n"
    \o "==========================================\n"

\* the keys of `students`, in the dict's order
StudentNames == <<"john", "sarah", "mike", "bob">>

Subjects == <<"Math", "Science", "English", "History">>

students ==
    [n \in {"john", "sarah", "mike", "bob"} |->
        CASE n = "john"  -> [Math |-> 85, Science |-> 92, English |-> 78, History |-> 88, GPA |-> "3.6"]
          [] n = "sarah" -> [Math |-> 95, Science |-> 89, English |-> 91, History |-> 87, GPA |-> "3.9"]
          [] n = "mike"  -> [Math |-> 72, Science |-> 68, English |-> 85, History |-> 79, GPA |-> "3.0"]
          [] n = "bob"   -> [Math |-> 99, Science |-> 77, English |-> 88, History |-> 99, GPA |-> "4.0"]]

\* the first name of StudentNames that occurs in s, None when none does
FirstStudentIn(s) ==
    LET hits == {i \in 1..Len(StudentNames) : Contains(s, StudentNames[i])} IN
    IF hits = {} THEN None
    ELSE StudentNames[CHOOSE i \in hits : \A j \in hits : i <= j]

RuleWidth == 45

RECURSIVE SubjectLines(_, _)
SubjectLines(marks, i) ==
    IF i > Len(Subjects) THEN ""
    ELSE "  " \o Pad(Subjects[i], 12) \o " : " \o ToString(marks[Subjects[i]]) \o "/100\n"
         \o SubjectLines(marks, i + 1)

student_marks_tool(student_name) ==
    LET stripped == Strip(Lower(student_name))
        found == FirstStudentIn(stripped)
        name == IF found = None THEN stripped ELSE found
    IN  IF name \notin DOMAIN students
        THEN "Student '" \o student_name \o "' not found.\n\nAvailable students: John, Sarah, Mike, Bob"
        ELSE "\n Academic Report for " \o Title(name) \o "\n"
             \o Repeat("=", RuleWidth) \o "\n\n"
             \o SubjectLines(students[name], 1)
             \o "\n" \o Repeat("=", RuleWidth) \o "\n"
             \o "  Overall GPA  : " \o students[name].GPA \o "/4.0\n"
             \o Repeat("=", RuleWidth)

\* tool(argument), for a registered tool
Invoke(tool_name, argument) ==
    CASE tool_name = "positive_tool" -> positive_tool(argument)
      [] tool_name = "negative_tool" -> negative_tool(argument)
      [] tool_name = "student_marks_tool" -> student_marks_tool(argument)
      [] tool_name = "crisis_tool" -> crisis_tool(argument)

(***************************************************************************)
(* agent.py: routing and execution.  The classifier (self.tool_selector)    *)
(* is outside the program: a call of it either raises or returns a text.    *)
(***************************************************************************)
Raises == [raised |-> TRUE, text |-> ""]
Returns(text) == [raised |-> FALSE, text |-> text]

CrisisWords == {"suicide", "kill myself", "self-harm", "end it", "want to die"}
AcademicWords == {"marks", "grades", "john", "sarah", "mike", "bob", "gpa"}
negative_words ==
    {"sad", "down", "bad", "upset", "depressed", "heartbroken",
     "miserable", "terrible", "awful", "struggling", "hopeless"}
positive_words ==
    {"happy", "great", "good", "wonderful", "awesome",
     "hi", "hello", "hey", "morning", "afternoon", "evening"}

\* keyword_match with the academic markers tested before the crisis markers
keyword_match_academic_first(message) ==
    LET msg == Lower(message) IN
    IF ContainsAny(msg, AcademicWords) THEN "student_marks_tool"
    ELSE IF ContainsAny(msg, CrisisWords) THEN "crisis_tool"
    ELSE IF ContainsAny(msg, negative_words) THEN "negative_tool"
    ELSE "positive_tool"

keyword_match(message) ==
    LET msg == Lower(message) IN
    IF ContainsAny(msg, CrisisWords) THEN "crisis_tool"
    ELSE IF ContainsAny(msg, AcademicWords) THEN "student_marks_tool"
    ELSE IF ContainsAny(msg, negative_words) THEN "negative_tool"
    ELSE IF ContainsAny(msg, positive_words) THEN "positive_tool"
    ELSE "positive_tool"

\* select_tool with a fixed default in the except branch
select_tool_default_on_error(message, cls) ==
    IF cls.raised THEN "positive_tool"
    ELSE LET tool_name == Lower(Strip(cls.text)) IN
         IF tool_name \in KnownTools THEN tool_name ELSE keyword_match(message)

\* select_tool that takes the classifier's text as the tool name without looking it up
select_tool_unchecked(message, cls) ==
    IF cls.raised THEN keyword_match(message)
    ELSE Lower(Strip(cls.text))

\* cls is what self.tool_selector.invoke does in this call
select_tool(message, cls) ==
    IF cls.raised THEN keyword_match(message)
    ELSE LET tool_name == Lower(Strip(cls.text)) IN
         IF tool_name \in KnownTools THEN tool_name ELSE keyword_match(message)

NotSure == "I'm not sure how to help with that."
WhichStudent == "Which student? Available: John, Sarah, Mike, Bob"
Apology == "Sorry, I encountered an error."

\* tool_calls that hands the whole message to every tool
tool_calls_whole_message(tool_name, message) ==
    IF tool_name \notin KnownTools THEN <<>>
    ELSE <<[tool |-> tool_name, argument |-> message]>>

\* the calls of tool objects _execute_tool makes, in order, with their argument
tool_calls(tool_name, message) ==
    IF tool_name \notin KnownTools THEN <<>>
    ELSE IF tool_name = "student_marks_tool"
    THEN LET name == FirstStudentIn(Lower(message)) IN
         IF name = None THEN <<>>
         ELSE <<[tool |-> tool_name, argument |-> name]>>
    ELSE <<[tool |-> tool_name, argument |-> message]>>

\* fails: the call of the tool object raises
execute_tool(tool_name, message, fails) ==
    IF tool_name \notin KnownTools THEN NotSure
    ELSE IF tool_name = "student_marks_tool"
    THEN LET name == FirstStudentIn(Lower(message)) IN
         IF name = None THEN WhichStudent
         ELSE IF fails THEN Apology
         ELSE Invoke(tool_name, name)
    ELSE IF fails THEN Apology
    ELSE Invoke(tool_name, message)

(***************************************************************************)
(* memory.py: SessionManager.  A session dict is an object of the heap;     *)
(* self.sessions maps a thread id to the reference of its session.  The     *)
(* operators below are the methods run from call to return with no other    *)
(* thread in between; st is the record of sessions, heap and clock.         *)
(*                                                                          *)
(* ConversationBufferMemory(return_messages=True) keeps the messages in one *)
(* list (chat_memory.messages): save_context appends a HumanMessage and an  *)
(* AIMessage to it, and load_memory_variables({})["history"] is that list   *)
(* itself, not a copy.                                                      *)
(***************************************************************************)
EmptyDict == [k \in {} |-> 0]
\* d.get(k, default)
DictGet(d, k, default) == IF k \in DOMAIN d THEN d[k] ELSE default
\* d[k] = v
DictSet(d, k, v) == [x \in (DOMAIN d) \cup {k} |-> IF x = k THEN v ELSE d[x]]
\* del d[k]
DictDel(d, k) == [x \in (DOMAIN d) \ {k} |-> d[x]]

HumanMessage(content) == [type |-> "human", content |-> content]
AIMessage(content) == [type |-> "ai", content |-> content]

St == [sessions |-> sessions, heap |-> heap, clock |-> clock]

\* the reference a new object gets
NewRef(hp) == CHOOSE r \in Refs \ DOMAIN hp : \A q \in Refs \ DOMAIN hp : r <= q

\* the dict literal of get_or_create_session
NewSession(thread_id, now) ==
    [memory |-> <<>>, tools_used |-> EmptyDict, tools_history |-> <<>>,
     created_at |-> now, last_active |-> now, thread_id |-> thread_id]

\* returns the store and the reference of the session
get_or_create_session(st, thread_id) ==
    IF thread_id \notin DOMAIN st.sessions
    THEN LET r == NewRef(st.heap) IN
         [st |-> [st EXCEPT !.sessions = DictSet(@, thread_id, r),
                            !.heap = DictSet(@, r, NewSession(thread_id, st.clock))],
          session |-> r]
    ELSE [st |-> st, session |-> st.sessions[thread_id]]

\* memory.save_context({"input": user_msg}, {"output": bot_response})
save_context(messages, user_msg, bot_response) ==
    Append(Append(messages, HumanMessage(user_msg)), AIMessage(bot_response))

\* CountTool without the read of the old count
CountToolFromZero(tools_used, tool_name) == DictSet(tools_used, tool_name, 1)

\* session["tools_used"][tool_name] = session["tools_used"].get(tool_name, 0) + 1
CountTool(tools_used, tool_name) ==
    DictSet(tools_used, tool_name, DictGet(tools_used, tool_name, 0) + 1)

\* save_interaction that stamps created_at as well
save_interaction_restamps(st, thread_id, user_msg, bot_response, tool_name) ==
    LET g == get_or_create_session(st, thread_id)
        r == g.session
    IN  [g.st EXCEPT !.heap[r] =
            [@ EXCEPT !.memory = save_context(@, user_msg, bot_response),
                      !.tools_used = CountTool(@, tool_name),
                      !.tools_history = Append(@, tool_name),
                      !.created_at = st.clock,
                      !.last_active = st.clock]]

\* save_interaction with one conversation buffer behind every session
save_interaction_shared(st, thread_id, user_msg, bot_response, tool_name) ==
    LET g == get_or_create_session(st, thread_id)
        r == g.session
        hp == [q \in DOMAIN g.st.heap |->
                 [g.st.heap[q] EXCEPT !.memory = save_context(@, user_msg, bot_response)]]
    IN  [g.st EXCEPT !.heap = [hp EXCEPT ![r] =
            [@ EXCEPT !.tools_used = CountTool(@, tool_name),
                      !.tools_history = Append(@, tool_name),
                      !.last_active = st.clock]]]

save_interaction(st, thread_id, user_msg, bot_response, tool_name) ==
    LET g == get_or_create_session(st, thread_id)
        r == g.session
    IN  [g.st EXCEPT !.heap[r] =
            [@ EXCEPT !.memory = save_context(@, user_msg, bot_response),
                      !.tools_used = CountTool(@, tool_name),
                      !.tools_history = Append(@, tool_name),
                      !.last_active = st.clock]]

\* one line of get_history; a message is a HumanMessage or an AIMessage
HistoryLine(msg) ==
    IF msg.type = "human" THEN "Human: " \o msg.content ELSE "AI: " \o msg.content

\* get_history that looks the session up and creates none
get_history_lookup(st, thread_id) ==
    IF thread_id \in DOMAIN st.sessions
    THEN LET messages == st.heap[st.sessions[thread_id]].memory IN
         [st |-> st,
          value |-> Join("\n", [i \in 1..Len(messages) |-> HistoryLine(messages[i])])]
    ELSE [st |-> st, value |-> ""]

get_history(st, thread_id) ==
    LET g == get_or_create_session(st, thread_id)
        messages == g.st.heap[g.session].memory
    IN  [st |-> g.st,
         value |-> Join("\n", [i \in 1..Len(messages) |-> HistoryLine(messages[i])])]

get_stats(st, thread_id) ==
    LET g == get_or_create_session(st, thread_id)
        session == g.st.heap[g.session]
    IN  [st |-> g.st,
         value |-> [thread_id |-> thread_id,
                    message_count |-> Len(session.memory),
                    tools_used |-> session.tools_used,
                    created_at |-> session.created_at,
                    last_active |-> session.last_active]]

\* index of the first message of the type in the list, 0 when there is none
FirstOfType(messages, type) ==
    LET hits == {i \in 1..Len(messages) : messages[i].type = type} IN
    IF hits = {} THEN 0 ELSE CHOOSE i \in hits : \A j \in hits : i <= j

\* list.remove(x): the list without its first element equal to x
ListRemove(list, x) ==
    LET hits == {i \in 1..Len(list) : list[i] = x} IN
    IF hits = {} THEN list
    ELSE LET k == CHOOSE i \in hits : \A j \in hits : i <= j IN
         SubSeq(list, 1, k - 1) \o SubSeq(list, k + 1, Len(list))

\* `x or ""`, x a string or None
OrEmpty(x) == IF x = None THEN "" ELSE x

\* PairNext that takes the newest AI message for the oldest human message
PairNextNewestAI(messages, tools_history, human_index, idx, thread_id, now) ==
    LET h == FirstOfType(messages, "human")
        human_msg == IF h = 0 THEN None ELSE messages[h].content
        m1 == IF h = 0 THEN messages ELSE ListRemove(messages, messages[h])
        ais == {i \in 1..Len(m1) : m1[i].type = "ai"}
        a == IF ais = {} THEN 0 ELSE CHOOSE i \in ais : \A j \in ais : j <= i
        ai_msg == IF a = 0 THEN None ELSE m1[a].content
        m2 == IF a = 0 THEN m1 ELSE SubSeq(m1, 1, a - 1) \o SubSeq(m1, a + 1, Len(m1))
        tool_used == IF human_index < Len(tools_history)
                     THEN tools_history[human_index + 1] ELSE "unknown"
    IN  [messages |-> m2,
         entry |-> [message_id |-> idx,
                    user_query |-> OrEmpty(human_msg),
                    bot_response |-> OrEmpty(ai_msg),
                    tool_used |-> tool_used,
                    session_id |-> thread_id,
                    timestamp |-> now]]

\* one pass of the while loop of get_detailed_history: the list afterwards and the entry
PairNext(messages, tools_history, human_index, idx, thread_id, now) ==
    LET h == FirstOfType(messages, "human")
        human_msg == IF h = 0 THEN None ELSE messages[h].content
        m1 == IF h = 0 THEN messages ELSE ListRemove(messages, messages[h])
        a == FirstOfType(m1, "ai")
        ai_msg == IF a = 0 THEN None ELSE m1[a].content
        m2 == IF a = 0 THEN m1 ELSE ListRemove(m1, m1[a])
        tool_used == IF human_index < Len(tools_history)
                     THEN tools_history[human_index + 1] ELSE "unknown"
    IN  [messages |-> m2,
         entry |-> [message_id |-> idx,
                    user_query |-> OrEmpty(human_msg),
                    bot_response |-> OrEmpty(ai_msg),
                    tool_used |-> tool_used,
                    session_id |-> thread_id,
                    timestamp |-> now]]

RECURSIVE PairLoop(_, _, _, _, _, _)
\* the while loop from human_index on: the list afterwards and conv_list
PairLoop(messages, tools_history, human_index, conv_list, thread_id, now) ==
    IF human_index < Len(tools_history)
    THEN LET p == PairNext(messages, tools_history, human_index, human_index + 1, thread_id, now)
         IN  PairLoop(p.messages, tools_history, human_index + 1,
                      Append(conv_list, p.entry), thread_id, now)
    ELSE [messages |-> messages, conv_list |-> conv_list]

get_detailed_history(st, thread_id) ==
    LET g == get_or_create_session(st, thread_id)
        r == g.session
        session == g.st.heap[r]
        loop == PairLoop(session.memory, session.tools_history, 0, <<>>, thread_id, st.clock)
    IN  [st |-> [g.st EXCEPT !.heap[r].memory = loop.messages],
         value |-> [thread_id |-> thread_id,
                    session_id |-> thread_id,
                    total_messages |-> Len(loop.conv_list),
                    conversation |-> loop.conv_list,
                    created_at |-> session.created_at,
                    last_active |-> session.last_active]]

\* clear_session that empties the session where it stands
clear_session_in_place(st, thread_id) ==
    IF thread_id \in DOMAIN st.sessions
    THEN LET r == st.sessions[thread_id] IN
         [st |-> [st EXCEPT !.heap[r].memory = <<>>,
                            !.heap[r].tools_used = EmptyDict,
                            !.heap[r].tools_history = <<>>],
          value |-> TRUE]
    ELSE [st |-> st, value |-> FALSE]

clear_session(st, thread_id) ==
    IF thread_id \in DOMAIN st.sessions
    THEN [st |-> [st EXCEPT !.sessions = DictDel(@, thread_id)], value |-> TRUE]
    ELSE [st |-> st, value |-> FALSE]

list_all_sessions(st) == DOMAIN st.sessions

(***************************************************************************)
(* The inputs.                                                              *)
(***************************************************************************)
\* messages the routing pipeline is run on
Messages ==
    {"hi there", "I want to die", "What are John's marks?", "i feel sad", "my grades",
     "SUICIDE marks sad happy", "xyz", "bob and John", "send it", "I feel GREAT",
     "Bob is sad", "good or bad"}

\* what a call of the classifier does
ClassifierOutputs ==
    {Raises, Returns("positive_tool"), Returns(" Negative_Tool\n"),
     Returns("student_marks_tool"), Returns("CRISIS_TOOL"),
     Returns("I think positive_tool"), Returns("")}

\* the messages and classifier outcomes of the chat calls on the store
ChatMsgs == {"hi there", "I want to die", "What are John's marks?"}
ChatCls == {Raises, Returns(" Negative_Tool\n"), Returns("I think positive_tool")}
\* the messages and classifier outcomes of the chat calls that alternate with the other calls
StoreMsgs == {"hi there", "I want to die"}
StoreCls == {Raises, Returns(" Negative_Tool\n")}
\* the messages of the chat calls while time passes
TimeMsgs == {"hi there"}

\* select_tool and execute_tool on the inputs, evaluated once
Routing == [m \in Messages |-> [c \in ClassifierOutputs |-> select_tool(m, c)]]
\* the names _execute_tool can be handed: the known tools and the classifier's texts
ToolNames ==
    KnownTools \cup {Lower(Strip(c.text)) : c \in {x \in ClassifierOutputs : ~x.raised}}

Responses ==
    [m \in Messages |-> [tool \in ToolNames |-> [f \in BOOLEAN |-> execute_tool(tool, m, f)]]]

(***************************************************************************)
(* agent.py: ChatbotAgent.chat, run from call to return.  full_message is    *)
(* computed from the history and never used.  No statement of the try block *)
(* raises when the call runs alone (_select_tool and _execute_tool catch    *)
(* what the classifier and the tools raise), so the call returns from the   *)
(* try block.                                                               *)
(***************************************************************************)
\* chat that does not record an exchange whose tool failed
chat_skips_failed(st, user_message, thread_id, cls, fails) ==
    LET h == get_history(st, thread_id)
        tool_name == Routing[user_message][cls]
        bot_response == Responses[user_message][tool_name][fails]
        s1 == IF bot_response = Apology THEN h.st
              ELSE save_interaction(h.st, thread_id, user_message, bot_response, tool_name)
        stats == get_stats(s1, thread_id)
    IN  [st |-> stats.st,
         value |-> [success |-> TRUE,
                    response |-> bot_response,
                    tool_used |-> tool_name,
                    message_count |-> stats.value.message_count,
                    thread_id |-> thread_id]]

chat(st, user_message, thread_id, cls, fails) ==
    LET h == get_history(st, thread_id)
        tool_name == Routing[user_message][cls]
        bot_response == Responses[user_message][tool_name][fails]
        s1 == save_interaction(h.st, thread_id, user_message, bot_response, tool_name)
        stats == get_stats(s1, thread_id)
    IN  [st |-> stats.st,
         value |-> [success |-> TRUE,
                    response |-> bot_response,
                    tool_used |-> tool_name,
                    message_count |-> stats.value.message_count,
                    thread_id |-> thread_id]]

(***************************************************************************)
(* State.                                                                   *)
(***************************************************************************)
NoRet == [op |-> "none"]

\* a request thread that is not inside ChatbotAgent.chat
NoAgent == [phase |-> "none"]

\* a request thread between calls: session is the reference its local `session` holds
\* (0 = none), n and out its other locals, ret what its last call returned
IdleProc ==
    [op |-> "idle", pc |-> "idle", thread_id |-> None, user_msg |-> None,
     bot_response |-> None, tool_name |-> None, session |-> 0, n |-> 0, out |-> <<>>,
     human_msg |-> None, ret |-> NoRet, calls |-> 0, agent |-> NoAgent]

IdleRt ==
    [stage |-> "idle", path |-> None, message |-> None, cls |-> Raises, fails |-> FALSE,
     tool_name |-> None, response |-> None, calls |-> <<>>]

\* the objects something still refers to
Collect(hp, ss, pr) ==
    LET live == {ss[t] : t \in DOMAIN ss} \cup {pr[p].session : p \in DOMAIN pr} IN
    [r \in (DOMAIN hp) \cap live |-> hp[r]]

RECURSIVE TurnsIn(_, _)
TurnsIn(hp, refs) ==
    IF refs = {} THEN 0
    ELSE LET r == CHOOSE x \in refs : TRUE IN
         Len(hp[r].tools_history) + TurnsIn(hp, refs \ {r})

\* exchanges the store holds a tool name for
TotalTurns == TurnsIn(heap, DOMAIN heap)

Init ==
    /\ sessions = EmptyDict
    /\ heap = EmptyDict
    /\ clock = 0
    /\ ret = NoRet
    /\ saved = [t \in Tids |-> <<>>]
    /\ proc = [p \in Procs |-> IdleProc]
    /\ rt = IdleRt

\* the store after a call that ran alone
Apply(n) ==
    /\ sessions' = n.sessions
    /\ heap' = Collect(n.heap, n.sessions, proc)
    /\ clock' = n.clock

(***************************************************************************)
(* The interface of ChatbotAgent, one call at a time.                       *)
(***************************************************************************)
Chat(t, m, c, f) ==
    /\ TotalTurns < MaxTurns
    /\ LET n == chat(St, m, t, c, f) IN
        /\ Apply(n.st)
        /\ ret' = [op |-> "chat", thread_id |-> t, value |-> n.value]
        /\ saved' = [saved EXCEPT ![t] =
                        Append(@, [user_msg |-> m, bot_response |-> n.value.response,
                                   tool_name |-> n.value.tool_used])]
    /\ UNCHANGED <<proc, rt>>

GetHistory(t) ==
    /\ LET n == get_history(St, t) IN
        /\ Apply(n.st)
        /\ ret' = [op |-> "get_history", thread_id |-> t, value |-> n.value]
    /\ UNCHANGED <<saved, proc, rt>>

GetStats(t) ==
    /\ LET n == get_stats(St, t) IN
        /\ Apply(n.st)
        /\ ret' = [op |-> "get_stats", thread_id |-> t, value |-> n.value]
    /\ UNCHANGED <<saved, proc, rt>>

GetDetailedHistory(t) ==
    /\ LET n == get_detailed_history(St, t) IN
        /\ Apply(n.st)
        /\ ret' = [op |-> "get_detailed_history", thread_id |-> t, value |-> n.value]
    /\ UNCHANGED <<saved, proc, rt>>

ClearSession(t) ==
    /\ LET n == clear_session(St, t) IN
        /\ Apply(n.st)
        /\ ret' = [op |-> "clear_session", thread_id |-> t, value |-> n.value]
    /\ saved' = [saved EXCEPT ![t] = <<>>]
    /\ UNCHANGED <<proc, rt>>

ListSessions ==
    /\ ret' = [op |-> "list_sessions", thread_id |-> None, value |-> list_all_sessions(St)]
    /\ UNCHANGED <<sessions, heap, clock, saved, proc, rt>>

\* time passes
Tick ==
    /\ clock < MaxClock
    /\ clock' = clock + 1
    /\ UNCHANGED <<sessions, heap, ret, saved, proc, rt>>

Next ==
    \/ \E t \in Tids, m \in StoreMsgs, c \in StoreCls : Chat(t, m, c, FALSE)
    \/ \E t \in Tids : GetHistory(t)
    \/ \E t \in Tids : GetStats(t)
    \/ \E t \in Tids : GetDetailedHistory(t)
    \/ \E t \in Tids : ClearSession(t)
    \/ ListSessions

Spec == Init /\ [][Next]_vars

\* chat calls only, on threads that start fresh
NextChat == \E t \in Tids, m \in ChatMsgs, c \in ChatCls, f \in BOOLEAN : Chat(t, m, c, f)

SpecChat == Init /\ [][NextChat]_vars

\* the same calls while time passes
NextTime ==
    \/ \E t \in Tids, m \in TimeMsgs : Chat(t, m, Raises, FALSE)
    \/ \E t \in Tids : GetHistory(t)
    \/ \E t \in Tids : GetStats(t)
    \/ \E t \in Tids : GetDetailedHistory(t)
    \/ \E t \in Tids : ClearSession(t)
    \/ Tick

SpecTime == Init /\ [][NextTime]_vars

(***************************************************************************)
(* The routing pipeline on one message: chat selects with _select_tool and  *)
(* _fallback with _keyword_match; both then run _execute_tool.              *)
(***************************************************************************)
InitRouter ==
    /\ sessions = EmptyDict
    /\ heap = EmptyDict
    /\ clock = 0
    /\ ret = NoRet
    /\ saved = [t \in Tids |-> <<>>]
    /\ proc = [p \in Procs |-> IdleProc]
    /\ \E path \in {"chat", "fallback"}, m \in Messages, c \in ClassifierOutputs, f \in BOOLEAN :
           rt = [IdleRt EXCEPT !.stage = "input", !.path = path, !.message = m,
                               !.cls = c, !.fails = f]

SelectTool ==
    /\ rt.stage = "input"
    /\ rt.path = "chat"
    /\ rt' = [rt EXCEPT !.stage = "selected", !.tool_name = select_tool(rt.message, rt.cls)]
    /\ UNCHANGED <<sessions, heap, clock, ret, saved, proc>>

KeywordMatch ==
    /\ rt.stage = "input"
    /\ rt.path = "fallback"
    /\ rt' = [rt EXCEPT !.stage = "selected", !.tool_name = keyword_match(rt.message)]
    /\ UNCHANGED <<sessions, heap, clock, ret, saved, proc>>

ExecuteTool ==
    /\ rt.stage = "selected"
    /\ rt' = [rt EXCEPT !.stage = "executed",
                        !.response = execute_tool(rt.tool_name, rt.message, rt.fails),
                        !.calls = tool_calls(rt.tool_name, rt.message)]
    /\ UNCHANGED <<sessions, heap, clock, ret, saved, proc>>

NextRouter ==
    \/ SelectTool
    \/ KeywordMatch
    \/ ExecuteTool

SpecRouter == InitRouter /\ [][NextRouter]_vars

(***************************************************************************)
(* SessionManager under concurrent requests.  The endpoints of main.py are  *)
(* plain `def` functions, which the server runs on a thread pool; memory.py *)
(* takes no lock.  A step below is one read or write of shared data (a dict *)
(* lookup or store, a list append, len); the scan-and-remove of a message   *)
(* in get_detailed_history is taken as one step.                            *)
(***************************************************************************)
\* the threads of the concurrent calls, and what save_interaction is called with
ConcTids == {"a"}
ConcExchanges ==
    {[user_msg |-> m, tool_name |-> keyword_match(m),
      bot_response |-> execute_tool(keyword_match(m), m, FALSE)] : m \in {"hi there", "I feel GREAT"}}

Methods == {"save_interaction", "get_history", "get_stats", "get_detailed_history"}

\* the statement after `session = self.get_or_create_session(thread_id)`
Body(method) ==
    CASE method = "save_interaction" -> "save_human"
      [] method = "get_history" -> "hist_iter"
      [] method = "get_stats" -> "stats_len"
      [] method = "get_detailed_history" -> "dh_test"

\* the arguments of the call a thread is in
ArgsOf(pr) ==
    [thread_id |-> pr.thread_id, user_msg |-> pr.user_msg,
     bot_response |-> pr.bot_response, tool_name |-> pr.tool_name]

\* the thread after its call returned v
Return(pr, v) ==
    [IdleProc EXCEPT !.calls = pr.calls, !.agent = pr.agent,
                     !.ret = [op |-> pr.op, args |-> ArgsOf(pr), raised |-> FALSE, value |-> v]]

\* the thread after its call raised
Raise(pr) ==
    [IdleProc EXCEPT !.calls = pr.calls, !.agent = pr.agent,
                     !.ret = [op |-> pr.op, args |-> ArgsOf(pr), raised |-> TRUE, value |-> None]]

\* the step of thread p that changes only p and the session p holds
Step(p, pr, session) ==
    /\ proc' = [proc EXCEPT ![p] = pr]
    /\ heap' = Collect([heap EXCEPT ![proc[p].session] = session], sessions,
                       [proc EXCEPT ![p] = pr])
    /\ UNCHANGED <<sessions, clock, ret, saved, rt>>

\* the step of thread p that changes only p
Local(p, pr) ==
    /\ proc' = [proc EXCEPT ![p] = pr]
    /\ heap' = Collect(heap, sessions, [proc EXCEPT ![p] = pr])
    /\ UNCHANGED <<sessions, clock, ret, saved, rt>>

CallSave(p, t, e) ==
    /\ proc[p].pc = "idle"
    /\ proc[p].calls < MaxCalls
    /\ Local(p, [IdleProc EXCEPT !.op = "save_interaction", !.pc = "goc_test",
                                 !.thread_id = t, !.user_msg = e.user_msg,
                                 !.bot_response = e.bot_response, !.tool_name = e.tool_name,
                                 !.ret = proc[p].ret, !.calls = proc[p].calls + 1])

CallRead(p, method, t) ==
    /\ proc[p].pc = "idle"
    /\ proc[p].calls < MaxCalls
    /\ Local(p, [IdleProc EXCEPT !.op = method, !.pc = "goc_test", !.thread_id = t,
                                 !.ret = proc[p].ret, !.calls = proc[p].calls + 1])

\* get_or_create_session: if thread_id not in self.sessions
GocTest(p) ==
    /\ proc[p].pc = "goc_test"
    /\ Local(p, [proc[p] EXCEPT !.pc = IF proc[p].thread_id \notin DOMAIN sessions
                                       THEN "goc_new" ELSE "goc_ret"])

\* get_or_create_session: self.sessions[thread_id] = {...}
GocNew(p) ==
    /\ proc[p].pc = "goc_new"
    /\ LET r == NewRef(heap)
           ss == DictSet(sessions, proc[p].thread_id, r)
           pr == [proc EXCEPT ![p].pc = "goc_ret"]
       IN  /\ sessions' = ss
           /\ heap' = Collect(DictSet(heap, r, NewSession(proc[p].thread_id, clock)), ss, pr)
           /\ proc' = pr
    /\ UNCHANGED <<clock, ret, saved, rt>>

\* get_or_create_session: return self.sessions[thread_id]
GocRet(p) ==
    /\ proc[p].pc = "goc_ret"
    /\ IF proc[p].thread_id \in DOMAIN sessions
       THEN Local(p, [proc[p] EXCEPT !.pc = Body(proc[p].op),
                                     !.session = sessions[proc[p].thread_id]])
       ELSE Local(p, Raise(proc[p]))

\* save_context: the HumanMessage is appended
SaveHuman(p) ==
    /\ proc[p].pc = "save_human"
    /\ Step(p, [proc[p] EXCEPT !.pc = "save_ai"],
            [heap[proc[p].session] EXCEPT !.memory = Append(@, HumanMessage(proc[p].user_msg))])

\* save_context: the AIMessage is appended
SaveAI(p) ==
    /\ proc[p].pc = "save_ai"
    /\ Step(p, [proc[p] EXCEPT !.pc = "save_read"],
            [heap[proc[p].session] EXCEPT !.memory = Append(@, AIMessage(proc[p].bot_response))])

\* session["tools_used"].get(tool_name, 0)
SaveRead(p) ==
    /\ proc[p].pc = "save_read"
    /\ Local(p, [proc[p] EXCEPT !.pc = "save_write",
                                !.n = DictGet(heap[proc[p].session].tools_used,
                                              proc[p].tool_name, 0)])

\* session["tools_used"][tool_name] = ... + 1
SaveWrite(p) ==
    /\ proc[p].pc = "save_write"
    /\ Step(p, [proc[p] EXCEPT !.pc = "save_hist", !.n = 0],
            [heap[proc[p].session] EXCEPT
                !.tools_used = DictSet(@, proc[p].tool_name, proc[p].n + 1)])

\* session["tools_history"].append(tool_name)
SaveHist(p) ==
    /\ proc[p].pc = "save_hist"
    /\ Step(p, [proc[p] EXCEPT !.pc = "save_active"],
            [heap[proc[p].session] EXCEPT !.tools_history = Append(@, proc[p].tool_name)])

\* session["last_active"] = datetime.now().isoformat(), and the return
SaveActive(p) ==
    /\ proc[p].pc = "save_active"
    /\ Step(p, Return(proc[p], None), [heap[proc[p].session] EXCEPT !.last_active = clock])

\* get_history: one turn of `for msg in messages`, or the return after the last
HistIter(p) ==
    /\ proc[p].pc = "hist_iter"
    /\ LET messages == heap[proc[p].session].memory
           i == Len(proc[p].out)
       IN  IF i < Len(messages)
           THEN Local(p, [proc[p] EXCEPT !.out = Append(@, HistoryLine(messages[i + 1]))])
           ELSE Local(p, Return(proc[p], Join("\n", proc[p].out)))

\* get_stats: len(messages)
StatsLen(p) ==
    /\ proc[p].pc = "stats_len"
    /\ Local(p, [proc[p] EXCEPT !.pc = "stats_ret", !.n = Len(heap[proc[p].session].memory)])

\* get_stats: the rest of the dict, and the return
StatsRet(p) ==
    /\ proc[p].pc = "stats_ret"
    /\ LET session == heap[proc[p].session] IN
       Local(p, Return(proc[p], [thread_id |-> proc[p].thread_id,
                                 message_count |-> proc[p].n,
                                 tools_used |-> session.tools_used,
                                 created_at |-> session.created_at,
                                 last_active |-> session.last_active]))

\* get_detailed_history: while human_index < len(tools_history), or the return
DhTest(p) ==
    /\ proc[p].pc = "dh_test"
    /\ LET session == heap[proc[p].session] IN
       IF Len(proc[p].out) < Len(session.tools_history)
       THEN Local(p, [proc[p] EXCEPT !.pc = "dh_human"])
       ELSE Local(p, Return(proc[p], [thread_id |-> proc[p].thread_id,
                                      session_id |-> proc[p].thread_id,
                                      total_messages |-> Len(proc[p].out),
                                      conversation |-> proc[p].out,
                                      created_at |-> session.created_at,
                                      last_active |-> session.last_active]))

\* get_detailed_history: the first HumanMessage is taken out of the list
DhHuman(p) ==
    /\ proc[p].pc = "dh_human"
    /\ LET messages == heap[proc[p].session].memory
           h == FirstOfType(messages, "human")
       IN  Step(p, [proc[p] EXCEPT !.pc = "dh_ai",
                                   !.human_msg = IF h = 0 THEN None ELSE messages[h].content],
                [heap[proc[p].session] EXCEPT
                    !.memory = IF h = 0 THEN @ ELSE ListRemove(@, messages[h])])

\* get_detailed_history: the first AIMessage is taken out, and the entry appended
DhAI(p) ==
    /\ proc[p].pc = "dh_ai"
    /\ LET session == heap[proc[p].session]
           messages == session.memory
           a == FirstOfType(messages, "ai")
           human_index == Len(proc[p].out)
           entry == [message_id |-> human_index + 1,
                     user_query |-> OrEmpty(proc[p].human_msg),
                     bot_response |-> OrEmpty(IF a = 0 THEN None ELSE messages[a].content),
                     tool_used |-> IF human_index < Len(session.tools_history)
                                   THEN session.tools_history[human_index + 1]
                                   ELSE "unknown",
                     session_id |-> proc[p].thread_id,
                     timestamp |-> clock]
       IN  Step(p, [proc[p] EXCEPT !.pc = "dh_test", !.human_msg = None,
                                   !.out = Append(@, entry)],
                [session EXCEPT !.memory = IF a = 0 THEN @ ELSE ListRemove(@, messages[a])])

NextConc ==
    \E p \in Procs :
        \/ \E t \in ConcTids, e \in ConcExchanges : CallSave(p, t, e)
        \/ \E t \in ConcTids, method \in Methods \ {"save_interaction"} : CallRead(p, method, t)
        \/ GocTest(p)
        \/ GocNew(p)
        \/ GocRet(p)
        \/ SaveHuman(p)
        \/ SaveAI(p)
        \/ SaveRead(p)
        \/ SaveWrite(p)
        \/ SaveHist(p)
        \/ SaveActive(p)
        \/ HistIter(p)
        \/ StatsLen(p)
        \/ StatsRet(p)
        \/ DhTest(p)
        \/ DhHuman(p)
        \/ DhAI(p)

SpecConc == Init /\ [][NextConc]_vars

(***************************************************************************)
(* ChatbotAgent.chat and SessionManager.clear_session under concurrent      *)
(* requests.  chat calls get_history, save_interaction and get_stats one    *)
(* after the other, each running the steps above; an exception of one of    *)
(* them inside the try block hands over to _fallback, which calls           *)
(* save_interaction and get_stats outside any try block.  _select_tool and  *)
(* _execute_tool touch nothing shared and are one step with the call that   *)
(* follows them.                                                            *)
(***************************************************************************)
AgentMsgs == {"hi there"}
AgentCls == {Raises}

\* the thread inside chat, between two calls of the session manager
Between(p, phase, called) ==
    /\ proc[p].pc = "idle"
    /\ proc[p].agent.phase = phase
    /\ proc[p].ret.op = called

\* the thread entering a method of the session manager from chat
Enter(pr, method, agent) ==
    [IdleProc EXCEPT !.op = method, !.pc = "goc_test", !.thread_id = pr.thread_id,
                     !.calls = pr.calls, !.agent = agent]

\* the thread entering save_interaction from chat
EnterSave(pr, agent) ==
    [Enter(pr, "save_interaction", agent) EXCEPT
        !.user_msg = agent.message, !.bot_response = agent.response,
        !.tool_name = agent.tool_name]

\* the thread after chat returned or raised
Leave(pr, raised, v) ==
    [IdleProc EXCEPT !.calls = pr.calls,
                     !.ret = [op |-> "chat",
                              args |-> [thread_id |-> pr.ret.args.thread_id,
                                        user_msg |-> pr.agent.message,
                                        bot_response |-> pr.agent.response,
                                        tool_name |-> pr.agent.tool_name],
                              raised |-> raised, value |-> v, saves |-> pr.agent.saves]]

\* the dict chat and _fallback return
ChatResult(pr) ==
    [success |-> TRUE,
     response |-> pr.agent.response,
     tool_used |-> pr.agent.tool_name,
     message_count |-> pr.ret.value.message_count,
     thread_id |-> pr.ret.args.thread_id]

\* chat is called: context = self.session_manager.get_history(thread_id)
ChatCall(p, t, m, c, f) ==
    /\ proc[p].pc = "idle"
    /\ proc[p].agent.phase = "none"
    /\ proc[p].calls < MaxCalls
    /\ Local(p, Enter([proc[p] EXCEPT !.thread_id = t, !.calls = @ + 1], "get_history",
                      [phase |-> "try", message |-> m, cls |-> c, fails |-> f,
                       tool_name |-> None, response |-> None, saves |-> 0]))

\* chat: _select_tool, _execute_tool, and the call of save_interaction
ChatSave(p) ==
    /\ Between(p, "try", "get_history")
    /\ ~proc[p].ret.raised
    /\ LET a == proc[p].agent
           tool_name == Routing[a.message][a.cls]
           bot_response == Responses[a.message][tool_name][a.fails]
       IN  Local(p, EnterSave([proc[p] EXCEPT !.thread_id = proc[p].ret.args.thread_id],
                              [a EXCEPT !.tool_name = tool_name, !.response = bot_response]))

\* chat: stats = self.session_manager.get_stats(thread_id); saves counts the calls
\* of save_interaction that returned during this call of chat
ChatStats(p) ==
    /\ Between(p, "try", "save_interaction")
    /\ ~proc[p].ret.raised
    /\ Local(p, Enter([proc[p] EXCEPT !.thread_id = proc[p].ret.args.thread_id],
                      "get_stats", [proc[p].agent EXCEPT !.saves = @ + 1]))

\* chat: the return of the try block
ChatReturn(p) ==
    /\ Between(p, "try", "get_stats")
    /\ ~proc[p].ret.raised
    /\ Local(p, Leave(proc[p], FALSE, ChatResult(proc[p])))

\* chat: except Exception, then _fallback up to its call of save_interaction
ChatExcept(p) ==
    /\ proc[p].pc = "idle"
    /\ proc[p].agent.phase = "try"
    /\ proc[p].ret.op \in {"get_history", "save_interaction", "get_stats"}
    /\ proc[p].ret.raised
    /\ LET a == proc[p].agent
           tool_name == keyword_match(a.message)
           response == Responses[a.message][tool_name][a.fails]
       IN  Local(p, EnterSave([proc[p] EXCEPT !.thread_id = proc[p].ret.args.thread_id],
                              [a EXCEPT !.phase = "fallback", !.tool_name = tool_name,
                                        !.response = response]))

\* _fallback: stats = self.session_manager.get_stats(thread_id)
FallbackStats(p) ==
    /\ Between(p, "fallback", "save_interaction")
    /\ ~proc[p].ret.raised
    /\ Local(p, Enter([proc[p] EXCEPT !.thread_id = proc[p].ret.args.thread_id],
                      "get_stats", [proc[p].agent EXCEPT !.saves = @ + 1]))

\* _fallback: the return
FallbackReturn(p) ==
    /\ Between(p, "fallback", "get_stats")
    /\ ~proc[p].ret.raised
    /\ Local(p, Leave(proc[p], FALSE, ChatResult(proc[p])))

\* _fallback: an exception of save_interaction or get_stats leaves _fallback and chat
FallbackRaise(p) ==
    /\ proc[p].pc = "idle"
    /\ proc[p].agent.phase = "fallback"
    /\ proc[p].ret.op \in {"save_interaction", "get_stats"}
    /\ proc[p].ret.raised
    /\ Local(p, Leave(proc[p], TRUE, None))

\* clear_session is called
ClearCall(p, t) ==
    /\ proc[p].pc = "idle"
    /\ proc[p].agent.phase = "none"
    /\ proc[p].calls < MaxCalls
    /\ Local(p, [IdleProc EXCEPT !.op = "clear_session", !.pc = "clear_test", !.thread_id = t,
                                 !.calls = proc[p].calls + 1])

\* clear_session: if thread_id in self.sessions, or return False
ClearTest(p) ==
    /\ proc[p].pc = "clear_test"
    /\ IF proc[p].thread_id \in DOMAIN sessions
       THEN Local(p, [proc[p] EXCEPT !.pc = "clear_del"])
       ELSE Local(p, Return(proc[p], FALSE))

\* clear_session: del self.sessions[thread_id], and return True
ClearDel(p) ==
    /\ proc[p].pc = "clear_del"
    /\ IF proc[p].thread_id \in DOMAIN sessions
       THEN LET ss == DictDel(sessions, proc[p].thread_id)
                pr == [proc EXCEPT ![p] = Return(proc[p], TRUE)]
            IN  /\ sessions' = ss
                /\ heap' = Collect(heap, ss, pr)
                /\ proc' = pr
                /\ UNCHANGED <<clock, ret, saved, rt>>
       ELSE Local(p, Raise(proc[p]))

NextAgent ==
    \E p \in Procs :
        \/ \E t \in ConcTids, m \in AgentMsgs, c \in AgentCls, f \in BOOLEAN :
                ChatCall(p, t, m, c, f)
        \/ ChatSave(p)
        \/ ChatStats(p)
        \/ ChatReturn(p)
        \/ ChatExcept(p)
        \/ FallbackStats(p)
        \/ FallbackReturn(p)
        \/ FallbackRaise(p)
        \/ \E t \in ConcTids : ClearCall(p, t)
        \/ ClearTest(p)
        \/ ClearDel(p)
        \/ GocTest(p)
        \/ GocNew(p)
        \/ GocRet(p)
        \/ SaveHuman(p)
        \/ SaveAI(p)
        \/ SaveRead(p)
        \/ SaveWrite(p)
        \/ SaveHist(p)
        \/ SaveActive(p)
        \/ HistIter(p)
        \/ StatsLen(p)
        \/ StatsRet(p)

SpecAgent == Init /\ [][NextAgent]_vars

\* one request thread chats while the other clears the same thread id
Chatter == "p1"
Clearer == "p2"

NextClear ==
    \/ \E t \in ConcTids, m \in AgentMsgs, c \in AgentCls, f \in BOOLEAN :
            ChatCall(Chatter, t, m, c, f)
    \/ \E t \in ConcTids : ClearCall(Clearer, t)
    \/ \E p \in Procs :
        \/ ChatSave(p)
        \/ ChatStats(p)
        \/ ChatReturn(p)
        \/ ChatExcept(p)
        \/ FallbackStats(p)
        \/ FallbackReturn(p)
        \/ FallbackRaise(p)
        \/ ClearTest(p)
        \/ ClearDel(p)
        \/ GocTest(p)
        \/ GocNew(p)
        \/ GocRet(p)
        \/ SaveHuman(p)
        \/ SaveAI(p)
        \/ SaveRead(p)
        \/ SaveWrite(p)
        \/ SaveHist(p)
        \/ SaveActive(p)
        \/ HistIter(p)
        \/ StatsLen(p)
        \/ StatsRet(p)

SpecClear == Init /\ [][NextClear]_vars

(***************************************************************************)
(* Properties.                                                              *)
(***************************************************************************)
\* the session stored under a thread id
SessionOf(t) == heap[sessions[t]]

\* Human/AI pairs held in a message list: a human message directly followed by an AI one
NumExchanges(messages) ==
    Cardinality({i \in 1..(Len(messages) - 1) :
                    messages[i].type = "human" /\ messages[i + 1].type = "ai"})

RECURSIVE SumValues(_, _)
\* sum(d.values()), over the keys given
SumValues(d, keys) ==
    IF keys = {} THEN 0
    ELSE LET k == CHOOSE x \in keys : TRUE IN d[k] + SumValues(d, keys \ {k})

\* occurrences of x in a list
CountIn(list, x) == Cardinality({i \in 1..Len(list) : list[i] = x})

\* the messages of Messages that hold a crisis marker, read off the texts
CrisisMessages == {"I want to die", "SUICIDE marks sad happy", "send it"}

\* the classifier texts that are a known tool name once trimmed and lowercased
NormalisedKnown ==
    [x \in {"positive_tool", " Negative_Tool\n", "student_marks_tool", "CRISIS_TOOL"} |->
        CASE x = "positive_tool" -> "positive_tool"
          [] x = " Negative_Tool\n" -> "negative_tool"
          [] x = "student_marks_tool" -> "student_marks_tool"
          [] x = "CRISIS_TOOL" -> "crisis_tool"]

\* C1: after N chat calls on a fresh thread id, get_stats reports message_count = N,
\* and the k-th chat call returns message_count = k.
C1_MessageCountIsCalls ==
    /\ \A t \in DOMAIN sessions : get_stats(St, t).value.message_count = Len(saved[t])
    /\ ret.op = "chat" => ret.value.message_count = Len(saved[ret.thread_id])

\* C2: a chat call on a message that holds a crisis marker returns and records
\* crisis_tool, whatever the classifier returned.
C2_CrisisAlwaysWins ==
    (ret.op = "chat" /\ saved[ret.thread_id][Len(saved[ret.thread_id])].user_msg \in CrisisMessages)
    => /\ ret.value.tool_used = "crisis_tool"
       /\ LET h == SessionOf(ret.thread_id).tools_history IN h[Len(h)] = "crisis_tool"

\* the messages save_interaction appends for one exchange
PairOf(e) == <<HumanMessage(e.user_msg), AIMessage(e.bot_response)>>

\* a request thread has made the call and it returned
Returned(p, method) ==
    proc[p].pc = "idle" /\ proc[p].ret.op = method /\ ~proc[p].ret.raised

\* C3: under concurrent first access to a thread id, one session object is installed
\* for it: the session a request holds is the one stored under the id.
C3_OneSessionPerThread ==
    \A p \in Procs :
        proc[p].session # 0
        => /\ proc[p].thread_id \in DOMAIN sessions
           /\ sessions[proc[p].thread_id] = proc[p].session

\* C4: two concurrent save_interaction calls on one thread id do not interleave: once
\* both have returned, the buffer holds the two exchanges as adjacent Human/AI pairs,
\* tools_history holds both tool names and the tools_used counts add up to 2.
C4_SavesAreSerialized ==
    (\A p \in Procs : Returned(p, "save_interaction") /\ proc[p].calls = 1)
    => \A t \in ConcTids :
        /\ t \in DOMAIN sessions
        /\ \E p, q \in Procs :
            /\ p # q
            /\ SessionOf(t).memory = PairOf(proc[p].ret.args) \o PairOf(proc[q].ret.args)
            /\ SessionOf(t).tools_history
                   = <<proc[p].ret.args.tool_name, proc[q].ret.args.tool_name>>
        /\ SumValues(SessionOf(t).tools_used, DOMAIN SessionOf(t).tools_used) = 2

\* the text get_history gives for a list of whole exchanges
Transcript(exchanges) ==
    Join("\n", [i \in 1..(2 * Len(exchanges)) |->
                   IF i % 2 = 1 THEN "Human: " \o exchanges[(i + 1) \div 2].user_msg
                   ELSE "AI: " \o exchanges[i \div 2].bot_response])

\* the transcripts of the lists of whole exchanges the concurrent calls can save
WholeTranscripts ==
    UNION {{Transcript(x) : x \in [1..k -> ConcExchanges]} :
              k \in 0..(MaxCalls * Cardinality(Procs))}

\* C5: a read that runs while save_interaction runs on the same thread id sees the
\* session between two saves: get_stats reports a count of whole exchanges that is
\* the sum of tools_used, get_history gives whole exchanges only, and every entry of
\* get_detailed_history has its human message and its AI response.
C5_ReadsSeeWholeExchanges ==
    \A p \in Procs :
        /\ Returned(p, "get_stats")
           => LET v == proc[p].ret.value IN
              /\ v.message_count % 2 = 0
              /\ v.message_count \div 2 = SumValues(v.tools_used, DOMAIN v.tools_used)
        /\ Returned(p, "get_history") => proc[p].ret.value \in WholeTranscripts
        /\ Returned(p, "get_detailed_history")
           => \A i \in 1..Len(proc[p].ret.value.conversation) :
                  /\ proc[p].ret.value.conversation[i].user_query # ""
                  /\ proc[p].ret.value.conversation[i].bot_response # ""

\* C6: get_detailed_history leaves the session as it was: buffer, tools_history and
\* tools_used are unchanged, and get_history, get_stats and a second
\* get_detailed_history return what they returned before it.
C6_DetailedHistoryReadsOnly ==
    [][\A t \in Tids :
        (t \in DOMAIN sessions /\ GetDetailedHistory(t))
        => /\ SessionOf(t)' = SessionOf(t)
           /\ get_history(St', t).value = get_history(St, t).value
           /\ get_stats(St', t).value = get_stats(St, t).value
           /\ get_detailed_history(St', t).value.conversation = ret'.value.conversation]_vars

\* C7: for every session of the store, tools_history is as long as the number of
\* exchanges the buffer holds.
C7_HistoryMatchesBuffer ==
    \A t \in DOMAIN sessions :
        Len(SessionOf(t).tools_history) = NumExchanges(SessionOf(t).memory)

\* C8: after chat calls only, the tools_used counts add up to the number of recorded
\* exchanges, and each count is the number of entries of tools_history for that tool.
C8_ToolCountsMatchHistory ==
    \A t \in DOMAIN sessions :
        LET s == SessionOf(t) IN
        /\ SumValues(s.tools_used, DOMAIN s.tools_used) = NumExchanges(s.memory)
        /\ SumValues(s.tools_used, DOMAIN s.tools_used) = Len(saved[t])
        /\ \A tool \in KnownTools \cup DOMAIN s.tools_used :
               DictGet(s.tools_used, tool, 0) = CountIn(s.tools_history, tool)

\* C8 witness: tools positive, positive, negative were recorded on one thread
C8_Witness ==
    \E t \in DOMAIN sessions :
        /\ SessionOf(t).tools_history = <<"positive_tool", "positive_tool", "negative_tool">>
        /\ SessionOf(t).tools_used = [x \in {"positive_tool", "negative_tool"} |->
                                         IF x = "positive_tool" THEN 2 ELSE 1]

\* C9: for every session, get_detailed_history returns as many conversation entries
\* as get_stats reports in message_count.
C9_DetailedLengthIsMessageCount ==
    \A t \in DOMAIN sessions :
        Len(get_detailed_history(St, t).value.conversation)
            = get_stats(St, t).value.message_count

\* C10: select_tool returns the trimmed, lowercased classifier text when that is a
\* known tool name, and the keyword router's result in every other case, so a crisis
\* message goes to crisis_tool when the classifier raises or returns anything else.
C10_SelectToolFallsBack ==
    (rt.path = "chat" /\ rt.stage \in {"selected", "executed"})
    => LET known == ~rt.cls.raised /\ rt.cls.text \in DOMAIN NormalisedKnown IN
       /\ rt.tool_name \in KnownTools
       /\ known => rt.tool_name = NormalisedKnown[rt.cls.text]
       /\ ~known => rt.tool_name = keyword_match(rt.message)
       /\ (~known /\ rt.message \in CrisisMessages) => rt.tool_name = "crisis_tool"

\* C10 witness: the classifier raised on a crisis message and crisis_tool was selected
C10_Witness ==
    /\ rt.path = "chat"
    /\ rt.stage = "selected"
    /\ rt.cls.raised
    /\ rt.message = "I want to die"
    /\ rt.tool_name = "crisis_tool"

\* the step is a call of op on thread id t: every call leaves what it returned in ret,
\* and time passes between calls, not during one
Did(op, t) == ret'.op = op /\ ret'.thread_id = t /\ clock' = clock

\* C11: clear_session on a thread id that is not in the store returns FALSE and
\* leaves the store as it was; on a thread id in the store it returns TRUE and the id
\* is no longer listed, and get_stats on the id after that reports message_count 0,
\* no tools used and a created_at read from the clock at that later call.
C11_ClearSession ==
    [][/\ \A t \in Tids :
            Did("clear_session", t) =>
                IF t \in DOMAIN sessions
                THEN /\ ret'.value = TRUE
                     /\ t \notin list_all_sessions(St')
                     /\ LET v == get_stats(St', t).value IN
                            /\ v.message_count = 0
                            /\ v.tools_used = EmptyDict
                            /\ v.created_at = clock'
                ELSE /\ ret'.value = FALSE
                     /\ sessions' = sessions
                     /\ heap' = heap
       /\ (ret.op = "clear_session" /\ ret.value = TRUE /\ Did("get_stats", ret.thread_id))
            => /\ ret'.value.message_count = 0
               /\ ret'.value.tools_used = EmptyDict
               /\ ret'.value.created_at = clock
               /\ SessionOf(ret.thread_id)'.created_at = clock]_vars

\* C11 witness: a session was cleared after the clock moved
C11_Witness ==
    /\ ret.op = "clear_session"
    /\ ret.value = TRUE
    /\ ret.thread_id \notin DOMAIN sessions
    /\ clock > 0

\* what thread id t has recorded since it was last cleared, as message contents
ContentsOf(t) ==
    {saved[t][k].user_msg : k \in 1..Len(saved[t])}
        \cup {saved[t][k].bot_response : k \in 1..Len(saved[t])}

\* C12: a call on thread id a leaves every other thread id b as it was: b is in the
\* store after the call exactly when it was before, its session (buffer, tools_history,
\* tools_used, created_at, last_active) is unchanged, get_history(b) and
\* get_detailed_history(b) return what they would have returned before, and no
\* session ever holds a message or a tool name that was not recorded under its own id.
C12_ThreadsAreIsolated ==
    [][/\ \A a \in Tids :
            (ret'.op # "none" /\ ret'.thread_id = a /\ clock' = clock) =>
                \A b \in Tids \ {a} :
                    /\ b \in DOMAIN sessions' <=> b \in DOMAIN sessions
                    /\ b \in DOMAIN sessions =>
                        /\ SessionOf(b)' = SessionOf(b)
                        /\ get_history(St', b).value = get_history(St, b).value
                        /\ get_detailed_history(St', b).value
                                = get_detailed_history(St, b).value
       /\ \A b \in DOMAIN sessions' :
            LET s == SessionOf(b)' IN
            /\ \A i \in 1..Len(s.memory) : s.memory[i].content \in ContentsOf(b)'
            /\ \A i \in 1..Len(s.tools_history) :
                    \E k \in 1..Len(saved'[b]) : saved'[b][k].tool_name = s.tools_history[i]
      ]_vars

\* C12 witness: both threads hold a session with an exchange, and the last call was a
\* chat on one of them at a later time than the other was last written
C12_Witness ==
    /\ Tids \subseteq DOMAIN sessions
    /\ ret.op = "chat"
    /\ \E b \in Tids \ {ret.thread_id} :
            /\ Len(SessionOf(b).memory) = 2
            /\ SessionOf(b).last_active < SessionOf(ret.thread_id).last_active

\* C13: get_history gives the whole transcript, oldest first: for a session with k
\* exchanges saved since it was created, the k "Human: "/"AI: " pairs of those
\* exchanges in the order they were saved; no call but clear_session drops one.
C13_HistoryIsWholeTranscript ==
    \A t \in DOMAIN sessions : get_history(St, t).value = Transcript(saved[t])

\* a session that holds as many whole exchanges as tools_history has entries: the
\* buffer is a list of HumanMessage/AIMessage pairs, one pair per entry
Paired(s) ==
    /\ Len(s.memory) = 2 * Len(s.tools_history)
    /\ \A i \in 1..Len(s.memory) :
            s.memory[i].type = IF i % 2 = 1 THEN "human" ELSE "ai"

\* C14: get_detailed_history on a session that holds n exchanges and n tools_history
\* entries returns n entries and total_messages n; entry i has message_id i, the user
\* message and the bot response of the i-th exchange, and tool_used tools_history[i].
C14_DetailedHistoryPairsByIndex ==
    [][\A t \in Tids :
        (Did("get_detailed_history", t) /\ t \in DOMAIN sessions /\ Paired(SessionOf(t)))
        => LET s == SessionOf(t)
               n == Len(s.tools_history)
               v == ret'.value
           IN  /\ v.total_messages = n
               /\ Len(v.conversation) = n
               /\ n = Len(saved[t])
               /\ \A i \in 1..n :
                    LET e == v.conversation[i] IN
                    /\ e.message_id = i
                    /\ e.user_query = s.memory[2 * i - 1].content
                    /\ e.bot_response = s.memory[2 * i].content
                    /\ e.tool_used = s.tools_history[i]
                    /\ e.user_query = saved[t][i].user_msg
                    /\ e.bot_response = saved[t][i].bot_response
                    /\ e.tool_used = saved[t][i].tool_name]_vars

\* C14 witness: get_detailed_history returned two entries with different responses
\* and different tools
C14_Witness ==
    /\ ret.op = "get_detailed_history"
    /\ ret.value.total_messages = 2
    /\ ret.value.conversation[1].bot_response # ret.value.conversation[2].bot_response
    /\ ret.value.conversation[1].bot_response # ""
    /\ ret.value.conversation[2].bot_response # ""
    /\ ret.value.conversation[1].tool_used # ret.value.conversation[2].tool_used

Min(x, y) == IF x <= y THEN x ELSE y

\* C15: get_detailed_history on a session whose number of exchanges and number of
\* tools_history entries differ returns as many entries as the smaller of the two;
\* no entry has an empty user message or an empty bot response beside a tool name,
\* and every entry's tool is the tool recorded with its exchange.
C15_DetailedHistoryTruncates ==
    [][\A t \in Tids :
        (Did("get_detailed_history", t) /\ t \in DOMAIN sessions)
        => LET s == SessionOf(t)
               v == ret'.value
           IN  /\ Len(v.conversation)
                    = Min(NumExchanges(s.memory), Len(s.tools_history))
               /\ \A i \in 1..Len(v.conversation) :
                    LET e == v.conversation[i] IN
                    /\ e.user_query # ""
                    /\ e.bot_response # ""
                    /\ \E k \in 1..Len(saved[t]) :
                            /\ saved[t][k].user_msg = e.user_query
                            /\ saved[t][k].bot_response = e.bot_response
                            /\ saved[t][k].tool_name = e.tool_used]_vars

\* the calls that go through get_or_create_session
SessionCalls == {"chat", "get_history", "get_stats", "get_detailed_history"}

\* C16: a thread id is in the store after every call that refers to it, read or
\* write; an id leaves the store only by clear_session on that id; get_history on an
\* id the store does not hold returns "" and the id is in the store afterwards.
C16_SessionLifetime ==
    [][\A t \in Tids :
        /\ (\E op \in SessionCalls : Did(op, t)) => t \in DOMAIN sessions'
        /\ (t \in DOMAIN sessions /\ t \notin DOMAIN sessions')
                => Did("clear_session", t)
        /\ (Did("get_history", t) /\ t \notin DOMAIN sessions)
                => /\ ret'.value = ""
                   /\ SessionOf(t)' = NewSession(t, clock)]_vars

\* C16 witness: get_history returned "" for a thread id that has nothing recorded, and
\* the id is in the store
C16_Witness ==
    /\ ret.op = "get_history"
    /\ ret.value = ""
    /\ ret.thread_id \in DOMAIN sessions
    /\ SessionOf(ret.thread_id) = NewSession(ret.thread_id, 0)

\* the classes of marker each message of Messages holds, read off the texts
MarkerClasses ==
    [m \in Messages |->
        CASE m = "hi there" -> {"positive"}
          [] m = "I want to die" -> {"crisis"}
          [] m = "What are John's marks?" -> {"academic"}
          [] m = "i feel sad" -> {"negative"}
          [] m = "my grades" -> {"academic"}
          [] m = "SUICIDE marks sad happy" -> {"crisis", "academic", "negative", "positive"}
          [] m = "xyz" -> {}
          [] m = "bob and John" -> {"academic"}
          [] m = "send it" -> {"crisis"}
          [] m = "I feel GREAT" -> {"positive"}
          [] m = "Bob is sad" -> {"academic", "negative"}
          [] m = "good or bad" -> {"negative", "positive"}]

\* C17: the keyword router gives a tool for every message, by strict priority: a
\* crisis marker gives crisis_tool; else an academic marker student_marks_tool; else
\* a negative marker negative_tool; else positive_tool.  The result is a known tool.
C17_KeywordRouterPriority ==
    /\ (rt.path = "fallback" /\ rt.stage = "input") => ENABLED KeywordMatch
    /\ (rt.path = "fallback" /\ rt.stage \in {"selected", "executed"})
        => LET c == MarkerClasses[rt.message] IN
           /\ rt.tool_name \in KnownTools
           /\ rt.tool_name =
                IF "crisis" \in c THEN "crisis_tool"
                ELSE IF "academic" \in c THEN "student_marks_tool"
                ELSE IF "negative" \in c THEN "negative_tool"
                ELSE "positive_tool"

\* C17 witness: a message with markers of all four classes was routed to crisis_tool
C17_Witness ==
    /\ rt.path = "fallback"
    /\ rt.stage = "selected"
    /\ rt.message = "SUICIDE marks sad happy"
    /\ rt.tool_name = "crisis_tool"

\* the messages of Messages that name a student, read off the texts: on the others
\* student_marks_tool is not called
NamesStudent == {"What are John's marks?", "bob and John", "Bob is sad"}

\* C19: when the selected tool raises, chat answers with the apology and success
\* TRUE, and records exactly one exchange for it: the buffer gains the user message
\* and the apology, tools_history gains the tool's name, the tool's count in
\* tools_used goes up by one, and tool_used in the result is that tool.
C19_ToolFailureIsRecorded ==
    [][\A t \in Tids, m \in ChatMsgs, c \in ChatCls :
        LET tool == Routing[m][c] IN
        (/\ ret'.thread_id = t
         /\ saved'[t][Len(saved'[t])].user_msg = m
         /\ Chat(t, m, c, TRUE)
         /\ tool = "student_marks_tool" => m \in NamesStudent)
        => LET old == IF t \in DOMAIN sessions THEN SessionOf(t) ELSE NewSession(t, clock)
               new == SessionOf(t)'
           IN  /\ ret'.value.success = TRUE
               /\ ret'.value.response = "Sorry, I encountered an error."
               /\ ret'.value.tool_used = tool
               /\ new.memory = old.memory \o <<HumanMessage(m),
                                                AIMessage("Sorry, I encountered an error.")>>
               /\ new.tools_history = Append(old.tools_history, tool)
               /\ DOMAIN new.tools_used = DOMAIN old.tools_used \cup {tool}
               /\ \A k \in DOMAIN new.tools_used :
                    new.tools_used[k] = DictGet(old.tools_used, k, 0)
                                            + (IF k = tool THEN 1 ELSE 0)]_vars

\* C19 witness: a chat whose tool raised returned the apology, on a session that
\* already held an exchange
C19_Witness ==
    /\ ret.op = "chat"
    /\ ret.value.response = "Sorry, I encountered an error."
    /\ ret.value.tool_used = "crisis_tool"
    /\ Len(SessionOf(ret.thread_id).tools_history) = 2
    /\ SessionOf(ret.thread_id).memory[4].content = "Sorry, I encountered an error."

\* the calls that read a session
ReadCalls == {"get_history", "get_stats", "get_detailed_history"}

\* C20: created_at is the time the session was created and no call changes it;
\* every chat, through save_interaction, sets last_active to the time of the call and
\* no read changes it; created_at <= last_active in every session, the clock never
\* going back.
C20_Timestamps ==
    [][\A t \in Tids :
        /\ (t \notin DOMAIN sessions /\ t \in DOMAIN sessions')
                => SessionOf(t)'.created_at = clock
        /\ (t \in DOMAIN sessions /\ t \in DOMAIN sessions')
                => SessionOf(t)'.created_at = SessionOf(t).created_at
        /\ Did("chat", t) => SessionOf(t)'.last_active = clock
        /\ (t \in DOMAIN sessions /\ \E op \in ReadCalls : Did(op, t))
                => SessionOf(t)'.last_active = SessionOf(t).last_active
        /\ t \in DOMAIN sessions'
                => SessionOf(t)'.created_at <= SessionOf(t)'.last_active
        /\ clock <= clock']_vars

\* C20 witness: a chat at time 1 on a session created at time 0
C20_Witness ==
    /\ ret.op = "chat"
    /\ clock = 1
    /\ SessionOf(ret.thread_id).created_at = 0
    /\ SessionOf(ret.thread_id).last_active = 1

\* C18: chat never raises and returns success TRUE, whatever the classifier, the tool
\* and the session store do during the call.
C18_ChatAlwaysSucceeds ==
    \A p \in Procs :
        (proc[p].pc = "idle" /\ proc[p].agent.phase = "none" /\ proc[p].ret.op = "chat")
        => /\ ~proc[p].ret.raised
           /\ proc[p].ret.value.success = TRUE

\* the student names each message of Messages holds, read off the texts
NamesIn ==
    [m \in Messages |->
        CASE m = "What are John's marks?" -> {"john"}
          [] m = "bob and John" -> {"bob", "john"}
          [] m = "Bob is sad" -> {"bob"}
          [] OTHER -> {}]

\* C21: for student_marks_tool, _execute_tool on a message that holds no student
\* name returns the "Which student?" prompt and calls no tool; on a message that
\* holds one it calls the tool exactly once, with a student name the message holds.
C21_MarksToolArgument ==
    (rt.stage = "executed" /\ rt.tool_name = "student_marks_tool")
    => IF NamesIn[rt.message] = {}
       THEN /\ rt.response = "Which student? Available: John, Sarah, Mike, Bob"
            /\ rt.calls = <<>>
       ELSE /\ Len(rt.calls) = 1
            /\ rt.calls[1].tool = "student_marks_tool"
            /\ rt.calls[1].argument \in NamesIn[rt.message]
            /\ rt.calls[1].argument \in {"john", "sarah", "mike", "bob"}
            /\ rt.response # "Which student? Available: John, Sarah, Mike, Bob"

\* C21 witness: on a message with two names in mixed case the tool was called once
C21_Witness ==
    /\ rt.stage = "executed"
    /\ rt.tool_name = "student_marks_tool"
    /\ rt.message = "bob and John"
    /\ rt.calls = <<[tool |-> "student_marks_tool", argument |-> "john"]>>

\* on every message and classifier outcome _select_tool gives a known tool, and
\* _execute_tool on it does not take the unknown-tool branch
RoutedToolsKnown ==
    \A m \in Messages, c \in ClassifierOutputs :
        /\ Routing[m][c] \in {"positive_tool", "negative_tool",
                               "student_marks_tool", "crisis_tool"}
        /\ \A f \in BOOLEAN :
                Responses[m][Routing[m][c]][f] # "I'm not sure how to help with that."

\* C22: every tool name chat returns as tool_used, appends to tools_history or uses
\* as a key of tools_used is one of the four known tools, whatever the classifier
\* does, so chat never answers with the text of _execute_tool's unknown-tool branch.
C22_OnlyKnownTools ==
    /\ RoutedToolsKnown
    /\ ret.op = "chat"
        => /\ ret.value.tool_used \in {"positive_tool", "negative_tool",
                                        "student_marks_tool", "crisis_tool"}
           /\ ret.value.response # "I'm not sure how to help with that."
    /\ \A t \in DOMAIN sessions :
            LET s == SessionOf(t) IN
            /\ \A i \in 1..Len(s.tools_history) :
                    s.tools_history[i] \in {"positive_tool", "negative_tool",
                                            "student_marks_tool", "crisis_tool"}
            /\ DOMAIN s.tools_used \subseteq {"positive_tool", "negative_tool",
                                              "student_marks_tool", "crisis_tool"}

\* C22 witness: three exchanges recorded, one with the tool the keywords gave (the
\* classifier raised or returned a text that is no tool name) and one with the tool
\* the classifier named
C22_Witness ==
    /\ ret.op = "chat"
    /\ \E k \in 1..Len(saved[ret.thread_id]) :
            /\ saved[ret.thread_id][k].user_msg = "What are John's marks?"
            /\ saved[ret.thread_id][k].tool_name = "student_marks_tool"
    /\ \E k \in 1..Len(saved[ret.thread_id]) :
            saved[ret.thread_id][k].tool_name = "negative_tool"
    /\ Len(SessionOf(ret.thread_id).tools_history) = 3

\* a request thread's call of chat has returned
ChatReturned(p) ==
    /\ proc[p].pc = "idle"
    /\ proc[p].agent.phase = "none"
    /\ proc[p].ret.op = "chat"
    /\ ~proc[p].ret.raised

\* C23: a chat call that returns has recorded its exchange once, on the try path and
\* on the _fallback path alike: when the try block fails after save_interaction
\* returned, _fallback does not save the same user message again.
C23_OneExchangePerChat ==
    \A p \in Procs : ChatReturned(p) => proc[p].ret.saves = 1

\* C24: with clear_session running beside chat on the same thread id, a chat call
\* that returns reports a message_count that counts its own exchange.
C24_CountIncludesOwnExchange ==
    \A p \in Procs : ChatReturned(p) => proc[p].ret.value.message_count >= 1

====
